---- MODULE Spec2Model ----
(***************************************************************************)
(* A model of src/widget.ts: the logical widget tree, the DOM tree the     *)
(* widgets' elements live in, the per-node widget counters and the guarded *)
(* DOM mutation primitives.                                                *)
(*                                                                         *)
(* Every widget is constructed without isWebComponent, so its element is   *)
(* its contentElement and parentElementOrShadowHost() is parentElement.    *)
(* A widget and its element carry the same name: widgetMap.get(e) is e     *)
(* itself for e in Widgets and undefined for e in Plain.                   *)
(*                                                                         *)
(* The program state is threaded through the operators as a record s; a   *)
(* thrown exception is the field s.thrown, which makes every later step of *)
(* the call a no-op (only the finally block of notify still runs).         *)
(***************************************************************************)
EXTENDS Integers, Sequences, FiniteSets, TLC

\* The widget instances of the model and the class each was constructed from.
Widgets == {"w1", "w2", "w3"}

WidgetKind == [w1 |-> "Widget", w2 |-> "VBox", w3 |-> "Widget"]

\* DOM elements that are no widget's element.
Plain == {"body", "d1"}

Elem == Widgets \cup Plain

\* null / undefined
None == "none"

\* An undefined Constraints slot, and new Constraints(): a Constraints value
\* is <<minimum, preferred>>, each a Size <<width, height>>.
Undef == <<>>

ZeroConstraints == <<<<0, 0>>, <<0, 0>>>>

\* Counter values beyond this magnitude are not explored.
MaxCounter == 3

\* The number of public calls a run makes.
MaxCalls == 4

\* Only among the first MaxHookedCalls calls of a run does a call find a hook
\* overridden, and only among the first MaxDomCalls is a call one of the raw
\* DOM primitives.
MaxHookedCalls == 3

MaxDomCalls == 2

\* The number of calls of a run that starts from a chain of showing widgets,
\* the depth to which suspendInvalidations is nested, and the widths and
\* heights passed to setMinimumSize and setMinimumAndPreferredSizes.
MaxLayoutCalls == 4

MaxSuspended == 2

\* The number of focus calls of a run on the chain.
MaxFocusCalls == 5

\* The number of calls, with or without an overridden hook, that follow the
\* chain's construction.
MaxNestedCalls == 3

Sizes == {0, 20}

-----------------------------------------------------------------------------
\* Sequences

Range(q) == {q[i] : i \in 1..Len(q)}

IndexOf(q, x) ==
    IF x \in Range(q) THEN CHOOSE i \in 1..Len(q) : q[i] = x /\ \A j \in 1..(i-1) : q[j] # x
    ELSE 0

RemoveAt(q, i) == SubSeq(q, 1, i-1) \o SubSeq(q, i+1, Len(q))

RemoveElem(q, x) == IF IndexOf(q, x) = 0 THEN q ELSE RemoveAt(q, IndexOf(q, x))

InsertAt(q, i, x) == SubSeq(q, 1, i-1) \o <<x>> \o SubSeq(q, i, Len(q))

-----------------------------------------------------------------------------
\* The DOM: kids[e] is the ordered child list of element e.

ParentElement(kids, e) ==
    IF \E p \in Elem : e \in Range(kids[p])
    THEN CHOOSE p \in Elem : e \in Range(kids[p])
    ELSE None

NextSibling(kids, e) ==
    LET p == ParentElement(kids, e) IN
    IF p = None THEN None
    ELSE LET i == IndexOf(kids[p], e) IN
         IF i < Len(kids[p]) THEN kids[p][i+1] ELSE None

RECURSIVE AncestorsOrSelf(_, _)
\* e, e.parentElementOrShadowHost(), ... up to the top.
AncestorsOrSelf(kids, e) ==
    IF e = None THEN {}
    ELSE {e} \cup AncestorsOrSelf(kids, ParentElement(kids, e))

\* The elements of a's DOM subtree, a excluded.
Descendants(kids, a) == {e \in Elem : e # a /\ a \in AncestorsOrSelf(kids, e)}

Throw(s, msg) == [s EXCEPT !.thrown = msg]

Detached(kids, e) ==
    [p \in Elem |-> RemoveElem(kids[p], e)]

\* The platform's focus fixup: the active element of the document once node
\* e has left its place. An active element that is e or lies below e loses
\* the focus, which falls back to document.body; document.body itself leaving
\* the document leaves it without an active element (null).
Unfocused(s, e) ==
    IF s.activeElement # None /\ e \in AncestorsOrSelf(s.kids, s.activeElement)
    THEN (IF e = "body" THEN None ELSE "body")
    ELSE s.activeElement

\* The platform's appendChild: a node cannot be put under itself or under one of
\* its own descendants (HierarchyRequestError); a node that has a parent is
\* moved.
OriginalAppendChild(s, p, e) ==
    IF e \in AncestorsOrSelf(s.kids, p) THEN Throw(s, "HierarchyRequestError")
    ELSE LET k == Detached(s.kids, e) IN
         [s EXCEPT !.kids = [k EXCEPT ![p] = Append(k[p], e)],
                   !.activeElement = Unfocused(s, e)]

\* The platform's insertBefore(node, child): child has to be a child of p
\* (NotFoundError); inserting a node before itself leaves it before its next
\* sibling.
OriginalInsertBefore(s, p, e, ref) ==
    IF ref = None THEN OriginalAppendChild(s, p, e)
    ELSE IF e \in AncestorsOrSelf(s.kids, p) THEN Throw(s, "HierarchyRequestError")
    ELSE IF ref \notin Range(s.kids[p]) THEN Throw(s, "NotFoundError")
    ELSE LET r == IF ref = e THEN NextSibling(s.kids, e) ELSE ref
             k == Detached(s.kids, e) IN
         IF r = None
         THEN [s EXCEPT !.kids = [k EXCEPT ![p] = Append(k[p], e)],
                        !.activeElement = Unfocused(s, e)]
         ELSE [s EXCEPT !.kids = [k EXCEPT ![p] = InsertAt(k[p], IndexOf(k[p], r), e)],
                        !.activeElement = Unfocused(s, e)]

\* The platform's removeChild.
OriginalRemoveChild(s, p, e) ==
    IF e \notin Range(s.kids[p]) THEN Throw(s, "NotFoundError")
    ELSE [s EXCEPT !.kids = Detached(s.kids, e), !.activeElement = Unfocused(s, e)]

\* dom_extension's removeChildren.
OriginalRemoveChildren(s, p) ==
    [s EXCEPT !.kids[p] = <<>>,
              !.activeElement = IF @ # None /\ @ \in Descendants(s.kids, p)
                                THEN "body" ELSE @]

-----------------------------------------------------------------------------
\* widgetMap and widgetCounterMap

WidgetMapGet(e) == IF e \in Widgets THEN e ELSE None

\* (widgetCounterMap.get(child) || 0) + (widgetMap.get(child) ? 1 : 0)
CounterAmount(s, childElement) ==
    s.counter[childElement] + (IF WidgetMapGet(childElement) # None THEN 1 ELSE 0)

IncrementWidgetCounter(s, parentElement, childElement) ==
    LET count == CounterAmount(s, childElement)
        chain == AncestorsOrSelf(s.kids, parentElement) IN
    [s EXCEPT !.counter = [el \in Elem |->
        IF el \in chain THEN s.counter[el] + count ELSE s.counter[el]]]

DecrementWidgetCounter(s, parentElement, childElement) ==
    LET count == CounterAmount(s, childElement)
        chain == AncestorsOrSelf(s.kids, parentElement) IN
    [s EXCEPT !.counter = [el \in Elem |->
        IF el \in chain /\ s.counter[el] # 0 THEN s.counter[el] - count ELSE s.counter[el]]]

-----------------------------------------------------------------------------
\* Geometry's Constraints and Size.

Max(a, b) == IF a >= b THEN a ELSE b

\* new Constraints(minimum, preferred) throws when the minimum is wider or
\* higher than the preferred size.
MinimumExceedsPreferred(minimum, preferred) ==
    minimum[1] > preferred[1] \/ minimum[2] > preferred[2]

\* Each operation applies the Size operation of the same name to the minimum
\* and to the preferred size.
WidthToMax(c, child) ==
    <<<<Max(c[1][1], child[1][1]), c[1][2]>>, <<Max(c[2][1], child[2][1]), c[2][2]>>>>

HeightToMax(c, child) ==
    <<<<c[1][1], Max(c[1][2], child[1][2])>>, <<c[2][1], Max(c[2][2], child[2][2])>>>>

AddWidth(c, child) ==
    <<<<c[1][1] + child[1][1], c[1][2]>>, <<c[2][1] + child[2][1], c[2][2]>>>>

AddHeight(c, child) ==
    <<<<c[1][1], c[1][2] + child[1][2]>>, <<c[2][1], c[2][2] + child[2][2]>>>>

\* actual.isEqual(cached || null)
IsEqual(actual, cached) == cached # Undef /\ actual = cached

-----------------------------------------------------------------------------
\* class Widget

RECURSIVE NearestWidget(_, _)
\* The walk of show() and showWidgetInternal(): the first element, from e
\* upwards, that widgetMap knows; None when the walk falls off the top.
NearestWidget(kids, e) ==
    IF e = None THEN None
    ELSE IF WidgetMapGet(e) # None THEN e
    ELSE NearestWidget(kids, ParentElement(kids, e))

RECURSIVE InNotification(_, _, _)
\* "yes", "no", or "overflow" when the parent links form a cycle on which
\* no notificationDepth is set: the recursion then never returns.
InNotification(s, w, seen) ==
    IF s.notificationDepth[w] > 0 THEN "yes"
    ELSE IF s.parentWidget[w] = None THEN "no"
    ELSE IF s.parentWidget[w] \in seen \cup {w} THEN "overflow"
    ELSE InNotification(s, s.parentWidget[w], seen \cup {w})

ParentIsShowing(s, w) ==
    IF s.isRoot[w] THEN TRUE
    ELSE s.parentWidget[w] # None /\ s.showing[s.parentWidget[w]]

RECURSIVE ShouldHideOnDetach(_, _, _)
RECURSIVE AnyChildHidesOnDetach(_, _, _, _)
\* "yes", "no", or "overflow" when the children lists lead back to w.
ShouldHideOnDetach(s, w, seen) ==
    IF ParentElement(s.kids, w) = None THEN "no"
    ELSE IF s.hideOnDetach[w] THEN "yes"
    ELSE IF w \in seen THEN "overflow"
    ELSE AnyChildHidesOnDetach(s, s.children[w], 1, seen \cup {w})

AnyChildHidesOnDetach(s, q, i, seen) ==
    IF i > Len(q) THEN "no"
    ELSE LET r == ShouldHideOnDetach(s, q[i], seen) IN
         IF r = "no" THEN AnyChildHidesOnDetach(s, q, i + 1, seen) ELSE r

RECURSIVE CallOnVisibleChildren(_, _, _, _, _, _)
RECURSIVE ProcessWillShow(_, _, _)
RECURSIVE ProcessWasShown(_, _)
RECURSIVE ProcessWillHide(_, _)
RECURSIVE ProcessWasHidden(_, _, _)
RECURSIVE ProcessOnResize(_, _)
RECURSIVE Notify(_, _, _)
RECURSIVE FireHook(_, _, _)
RECURSIVE RunHookCall(_, _, _)
RECURSIVE ConstraintsOf(_, _, _)
RECURSIVE CalculateConstraints(_, _, _)
RECURSIVE UpdateForChildren(_, _, _, _, _)
RECURSIVE InvalidateConstraints(_, _, _)
RECURSIVE DoLayout(_, _)
RECURSIVE DoResize(_, _)
RECURSIVE ShowWidgetInternal(_, _, _, _)
RECURSIVE HideWidgetInternal(_, _, _)
RECURSIVE Detach(_, _, _)
RECURSIVE ShowWidget(_, _)
RECURSIVE HideWidget(_, _)

\* The record of what the current public call did inside: the hooks it ran,
\* the calls overriding hooks made and the branches invalidateConstraints
\* took, each with the showing flags at that moment.
Log(s, ev, w, arg, flag) ==
    IF s.thrown # "" THEN s
    ELSE [s EXCEPT !.trace = Append(@, [ev |-> ev, w |-> w, arg |-> arg, flag |-> flag,
                                        showing |-> s.showing,
                                        depth |-> s.notificationDepth])]

\* Every operator that continues a call after a step that may have thrown
\* starts by passing a thrown state on unchanged.

\* The dispatch of method.call(copy[i]).
CallMethod(s, c, method, seen) ==
    CASE method = "processWillShow" -> ProcessWillShow(s, c, seen)
      [] method = "processWasShown" -> ProcessWasShown(s, c)
      [] method = "processWillHide" -> ProcessWillHide(s, c)
      [] method = "processWasHidden" -> ProcessWasHidden(s, c, seen)
      [] method = "processOnResize" -> ProcessOnResize(s, c)

\* The loop over copy = childrenInternal.slice(), from index i on.
CallOnVisibleChildren(s, w, copy, i, method, seen) ==
    IF s.thrown # "" \/ i > Len(copy) THEN s
    ELSE CallOnVisibleChildren(
             IF s.parentWidget[copy[i]] = w /\ s.visible[copy[i]]
             THEN CallMethod(s, copy[i], method, seen) ELSE s,
             w, copy, i + 1, method, seen)

\* this.callOnVisibleChildren(method), the copy taken when it is called.
CallOnVisibleChildrenOf(s, w, method, seen) ==
    IF s.thrown # "" THEN s
    ELSE CallOnVisibleChildren(s, w, s.children[w], 1, method, seen)

\* this.isShowingInternal = v
SetShowing(s, w, v) ==
    IF s.thrown # "" THEN s ELSE [s EXCEPT !.showing[w] = v]

ProcessWillShow(s, w, seen) ==
    IF w \in seen THEN Throw(s, "RangeError")
    ELSE SetShowing(CallOnVisibleChildrenOf(s, w, "processWillShow", seen \cup {w}), w, TRUE)

ProcessWasShown(s, w) ==
    LET n == InNotification(s, w, {}) IN
    IF n = "overflow" THEN Throw(s, "RangeError")
    ELSE IF n = "yes" THEN s
    ELSE CallOnVisibleChildrenOf(Notify(s, w, "wasShown"), w, "processWasShown", {})

ProcessWillHide(s, w) ==
    LET n == InNotification(s, w, {}) IN
    IF n = "overflow" THEN Throw(s, "RangeError")
    ELSE IF n = "yes" THEN s
    ELSE SetShowing(
             Notify(CallOnVisibleChildrenOf(s, w, "processWillHide", {}), w, "willHide"),
             w, FALSE)

ProcessWasHidden(s, w, seen) ==
    IF w \in seen THEN Throw(s, "RangeError")
    ELSE CallOnVisibleChildrenOf(s, w, "processWasHidden", seen \cup {w})

ProcessOnResize(s, w) ==
    LET n == InNotification(s, w, {}) IN
    IF s.thrown # "" THEN s
    ELSE IF n = "overflow" THEN Throw(s, "RangeError")
    ELSE IF n = "yes" THEN s
    ELSE IF ~s.showing[w] THEN s
    ELSE CallOnVisibleChildrenOf(Notify(s, w, "onResize"), w, "processOnResize", {})

\* What an overriding hook does: s.hook = <<kind, widget, call, target>> is the
\* one overridden hook of the current public call, which calls back into the
\* tree the first time it runs; every other hook is the base class's empty
\* method.
RunHookCall(s, call, t) ==
    CASE call = "showWidget" -> ShowWidget(s, t)
      [] call = "hideWidget" -> HideWidget(s, t)
      [] call = "detach" -> Detach(s, t, FALSE)

\* A hook runs: it is logged, and so is the call an overriding hook makes.
FireHook(s, w, kind) ==
    IF s.thrown # "" THEN s
    ELSE IF s.hook # <<>> /\ s.hook[1] = kind /\ s.hook[2] = w
    THEN Log(RunHookCall(
                 Log(Log([s EXCEPT !.hook = <<>>,
                                   !.calls = @ \o <<<<kind, w>>, <<s.hook[3], s.hook[4]>>>>],
                         kind, w, "", FALSE),
                     "enter", s.hook[4], s.hook[3], InNotification(s, s.hook[4], {}) = "yes"),
                 s.hook[3], s.hook[4]),
             "leave", s.hook[4], s.hook[3], FALSE)
    ELSE Log([s EXCEPT !.calls = Append(@, <<kind, w>>)], kind, w, "", FALSE)

\* ++this.notificationDepth
EnterNotification(s, w) == [s EXCEPT !.notificationDepth[w] = @ + 1]

\* A notify without the finally: a hook that throws leaves the depth as it is.
LeaveUnlessThrown(s, w) ==
    IF s.thrown # "" THEN s ELSE [s EXCEPT !.notificationDepth[w] = @ - 1]

\* finally { --this.notificationDepth }
LeaveNotification(s, w) == [s EXCEPT !.notificationDepth[w] = @ - 1]

Notify(s, w, kind) ==
    IF s.thrown # "" THEN s
    ELSE LeaveNotification(FireHook(EnterNotification(s, w), w, kind), w)

-----------------------------------------------------------------------------
\* Constraints: each operator returns [s |-> the state, c |-> the value].

\* updateForChild of VBox and of HBox
UpdateForChild(r, acc, kind) ==
    [s |-> r.s,
     c |-> IF r.s.thrown # "" THEN acc
           ELSE IF kind = "VBox" THEN AddHeight(WidthToMax(acc, r.c), r.c)
           ELSE HeightToMax(AddWidth(acc, r.c), r.c)]

\* this.callOnVisibleChildren(updateForChild); r.c is the running aggregate.
UpdateForChildren(r, w, copy, i, seen) ==
    IF r.s.thrown # "" \/ i > Len(copy) THEN r
    ELSE UpdateForChildren(
             IF r.s.parentWidget[copy[i]] = w /\ r.s.visible[copy[i]]
             THEN UpdateForChild(ConstraintsOf(r.s, copy[i], seen), r.c, WidgetKind[w])
             ELSE r,
             w, copy, i + 1, seen)

CalculateConstraints(s, w, seen) ==
    IF WidgetKind[w] = "Widget" THEN [s |-> s, c |-> ZeroConstraints]
    ELSE IF w \in seen THEN [s |-> Throw(s, "RangeError"), c |-> ZeroConstraints]
    ELSE UpdateForChildren([s |-> s, c |-> ZeroConstraints], w, s.children[w], 1, seen \cup {w})

\* this.cachedConstraints = this.calculateConstraints()
Memoize(r, w) ==
    IF r.s.thrown # "" THEN r
    ELSE [s |-> [r.s EXCEPT !.cachedConstraints[w] = r.c], c |-> r.c]

ConstraintsOf(s, w, seen) ==
    IF s.constraintsInternal[w] # Undef THEN [s |-> s, c |-> s.constraintsInternal[w]]
    ELSE IF s.cachedConstraints[w] = Undef THEN Memoize(CalculateConstraints(s, w, seen), w)
    ELSE [s |-> s, c |-> s.cachedConstraints[w]]

\* Boolean(minimum.width || minimum.height || preferred.width || preferred.height)
NonZero(r) ==
    [s |-> r.s, c |-> r.s.thrown = "" /\ (\/ r.c[1][1] # 0 \/ r.c[1][2] # 0
                                           \/ r.c[2][1] # 0 \/ r.c[2][2] # 0)]

HasNonZeroConstraints(s, w) == NonZero(ConstraintsOf(s, w, {}))

DoResize(s, w) ==
    LET n == InNotification(s, w, {}) IN
    IF s.thrown # "" THEN s
    ELSE IF ~s.showing[w] THEN s
    ELSE IF n = "overflow" THEN Throw(s, "RangeError")
    ELSE IF n = "yes" THEN s
    ELSE CallOnVisibleChildrenOf(s, w, "processOnResize", {})

DoLayout(s, w) ==
    IF ~s.showing[w] THEN s
    ELSE DoResize(Notify(s, w, "onLayout"), w)

\* invalidateConstraints that forwards to the parent whenever there is one.
ForwardWheneverParent(r, w, cached, depth) ==
    IF r.s.thrown # "" THEN r.s
    ELSE IF r.s.parentWidget[w] # None
    THEN InvalidateConstraints(Log(r.s, "forward", w, "", FALSE), r.s.parentWidget[w], depth + 1)
    ELSE DoLayout(Log(r.s, "doLayout", w, "", FALSE), w)

\* The branch of invalidateConstraints on actual.isEqual(cached || null).
ForwardOrLayout(r, w, cached, depth) ==
    IF r.s.thrown # "" THEN r.s
    ELSE IF ~IsEqual(r.c, cached) /\ r.s.parentWidget[w] # None
    THEN InvalidateConstraints(Log(r.s, "forward", w, "", FALSE), r.s.parentWidget[w], depth + 1)
    ELSE DoLayout(Log(r.s, "doLayout", w, "", IsEqual(r.c, cached)), w)

\* depth counts the widgets the invalidation has passed through: on a cycle of
\* parent links whose widgets all carry explicit constraints it never ends.
InvalidateConstraints(s, w, depth) ==
    IF s.invalidationsSuspended[w] # 0
    THEN Log([s EXCEPT !.invalidationsRequested[w] = TRUE], "invalidateConstraints", w, "", TRUE)
    ELSE IF depth > 2 * Cardinality(Widgets) THEN Throw(s, "RangeError")
    ELSE ForwardOrLayout(
             ConstraintsOf(Log([s EXCEPT !.invalidationsRequested[w] = FALSE,
                                         !.cachedConstraints[w] = Undef],
                               "invalidateConstraints", w, "", FALSE), w, {}),
             w, s.cachedConstraints[w], depth)

\* this.constraintsInternal = new Constraints(new Size(width, height),
\*     new Size(preferredWidth, preferredHeight));
\* this.invalidateConstraints()
SetMinimumAndPreferredSizes(s, w, width, height, preferredWidth, preferredHeight) ==
    IF MinimumExceedsPreferred(<<width, height>>, <<preferredWidth, preferredHeight>>)
    THEN Throw(s, "Minimum size is greater than preferred.")
    ELSE InvalidateConstraints(
             [s EXCEPT !.constraintsInternal[w] =
                           <<<<width, height>>, <<preferredWidth, preferredHeight>>>>],
             w, 0)

\* this.constraintsInternal = new Constraints(new Size(width, height)), whose
\* preferred size is its minimum; this.invalidateConstraints()
SetMinimumSize(s, w, width, height) ==
    InvalidateConstraints(
        [s EXCEPT !.constraintsInternal[w] = <<<<width, height>>, <<width, height>>>>],
        w, 0)

SuspendInvalidations(s, w) ==
    [s EXCEPT !.invalidationsSuspended[w] = @ + 1]

\* resumeInvalidations that runs the requested pass at every resume, the
\* inner ones included.
InvalidateWheneverRequested(s, w) ==
    IF s.invalidationsRequested[w]
    THEN InvalidateConstraints([s EXCEPT !.invalidationsSuspended[w] = 0], w, 0)
    ELSE s

\* if (!this.invalidationsSuspended && this.invalidationsRequested)
InvalidateIfRequested(s, w) ==
    IF s.invalidationsSuspended[w] = 0 /\ s.invalidationsRequested[w]
    THEN InvalidateConstraints(s, w, 0)
    ELSE s

ResumeInvalidations(s, w) ==
    InvalidateIfRequested([s EXCEPT !.invalidationsSuspended[w] = @ - 1], w)

-----------------------------------------------------------------------------
\* Tree mutation

\* The "Reparent" block of showWidgetInternal, after classList.remove('hidden').
Reparent(s, w, parentElement, insertBefore) ==
    IF s.thrown # "" THEN s
    ELSE IF ParentElement(s.kids, w) = parentElement THEN [s EXCEPT !.hidden[w] = FALSE]
    ELSE IF insertBefore # None
    THEN OriginalInsertBefore(
             IF ~s.externallyManaged[w]
             THEN IncrementWidgetCounter([s EXCEPT !.hidden[w] = FALSE], parentElement, w)
             ELSE [s EXCEPT !.hidden[w] = FALSE],
             parentElement, w, insertBefore)
    ELSE OriginalAppendChild(
             IF ~s.externallyManaged[w]
             THEN IncrementWidgetCounter([s EXCEPT !.hidden[w] = FALSE], parentElement, w)
             ELSE [s EXCEPT !.hidden[w] = FALSE],
             parentElement, w)

\* if (this.hasNonZeroConstraints()) parent.invalidateConstraints(), else other
InvalidateIfNonZero(r, w, other) ==
    IF r.s.thrown # "" THEN r.s
    ELSE IF r.c THEN InvalidateConstraints(r.s, r.s.parentWidget[w], 1)
    ELSE IF other = "processOnResize" THEN ProcessOnResize(r.s, w)
    ELSE r.s

\* The last statement of showWidgetInternal (other = "processOnResize") and of
\* hideWidgetInternal (other = "nothing").
InvalidateParentOr(s, w, other) ==
    IF s.thrown # "" THEN s
    ELSE IF s.parentWidget[w] = None
    THEN (IF other = "processOnResize" THEN ProcessOnResize(s, w) ELSE s)
    ELSE InvalidateIfNonZero(HasNonZeroConstraints(s, w), w, other)

\* if (!wasVisible && this.parentIsShowing()) this.processWillShow()
WillShowStep(s, w, wasVisible) ==
    IF ~wasVisible /\ ParentIsShowing(s, w) THEN ProcessWillShow(s, w, {}) ELSE s

\* if (!wasVisible && this.parentIsShowing()) this.processWasShown()
WasShownStep(s, w, wasVisible) ==
    IF s.thrown # "" THEN s
    ELSE IF ~wasVisible /\ ParentIsShowing(s, w) THEN ProcessWasShown(s, w) ELSE s

ShowWidgetInternal(s, w, parentElement, insertBefore) ==
    IF s.thrown # "" THEN s
    ELSE IF s.isRoot[w] /\ NearestWidget(s.kids, parentElement) # None
    THEN Throw(s, "Attempt to show root widget under another widget")
    ELSE IF ~s.isRoot[w] /\ ~(NearestWidget(s.kids, parentElement) # None
                              /\ WidgetMapGet(NearestWidget(s.kids, parentElement)) = s.parentWidget[w])
    THEN Throw(s, "Attempt to show under node belonging to alien widget")
    ELSE IF s.visible[w] /\ ParentElement(s.kids, w) = parentElement THEN s
    ELSE InvalidateParentOr(
             WasShownStep(
                 Reparent(
                     WillShowStep([s EXCEPT !.visible[w] = TRUE], w, s.visible[w]),
                     w, parentElement, insertBefore),
                 w, s.visible[w]),
             w, "processOnResize")

ShowWidget(s, w) ==
    IF s.visible[w] THEN s
    ELSE IF ParentElement(s.kids, w) = None
    THEN Throw(s, "Attempt to show widget that is not hidden using hideWidget().")
    ELSE ShowWidgetInternal(s, w, ParentElement(s.kids, w), NextSibling(s.kids, w))

\* "Force legal removal" / "Force kick out from DOM".
ForceRemove(s, w, parentElement) ==
    IF parentElement = None THEN s
    ELSE OriginalRemoveChild(DecrementWidgetCounter(s, parentElement, w), parentElement, w)

\* if (this.parentIsShowing()) this.processWillHide()
WillHideStep(s, w) ==
    IF ParentIsShowing(s, w) THEN ProcessWillHide(s, w) ELSE s

\* The removeFromDOM branch of hideWidgetInternal; parentElement was read
\* before the will-hide pass.
RemoveOrHide(s, w, removeFromDOM, parentElement) ==
    IF s.thrown # "" THEN s
    ELSE IF removeFromDOM THEN FireHook(ForceRemove(s, w, parentElement), w, "onDetach")
    ELSE [s EXCEPT !.hidden[w] = TRUE]

\* if (this.parentIsShowing()) this.processWasHidden()
WasHiddenStep(s, w) ==
    IF s.thrown # "" THEN s
    ELSE IF ParentIsShowing(s, w) THEN ProcessWasHidden(s, w, {}) ELSE s

HideWidgetInternal(s, w, removeFromDOM) ==
    InvalidateParentOr(
        WasHiddenStep(
            RemoveOrHide(
                WillHideStep([s EXCEPT !.visible[w] = FALSE], w),
                w, removeFromDOM, ParentElement(s.kids, w)),
            w),
        w, "nothing")

HideWidget(s, w) ==
    IF ~s.visible[w] THEN s ELSE HideWidgetInternal(s, w, FALSE)

\* Unlink that leaves the children list as it is.
UnlinkKeepingEntry(s, w) ==
    IF s.thrown # "" THEN s
    ELSE IF s.parentWidget[w] # None
    THEN IF IndexOf(s.children[s.parentWidget[w]], w) = 0
         THEN Throw(s, "Attempt to remove non-child widget")
         ELSE [s EXCEPT !.defaultFocusedChild[s.parentWidget[w]] = IF @ = w THEN None ELSE @,
                        !.parentWidget[w] = None]
    ELSE IF ~s.isRoot[w] THEN Throw(s, "Removing non-root widget from DOM")
    ELSE s

\* The "Update widget hierarchy" block of detach.
Unlink(s, w) ==
    IF s.thrown # "" THEN s
    ELSE IF s.parentWidget[w] # None
    THEN IF IndexOf(s.children[s.parentWidget[w]], w) = 0
         THEN Throw(s, "Attempt to remove non-child widget")
         ELSE [s EXCEPT !.children[s.parentWidget[w]] = RemoveAt(@, IndexOf(@, w)),
                        !.defaultFocusedChild[s.parentWidget[w]] = IF @ = w THEN None ELSE @,
                        !.parentWidget[w] = None]
    ELSE IF ~s.isRoot[w] THEN Throw(s, "Removing non-root widget from DOM")
    ELSE s

\* The hide-or-remove branch of detach.
HideOrRemove(s, w, removeFromDOM) ==
    IF s.visible[w] THEN HideWidgetInternal(s, w, removeFromDOM)
    ELSE IF removeFromDOM THEN ForceRemove(s, w, ParentElement(s.kids, w))
    ELSE s

Detach(s, w, overrideHideOnDetach) ==
    LET h == IF overrideHideOnDetach THEN "no" ELSE ShouldHideOnDetach(s, w, {}) IN
    IF s.parentWidget[w] = None /\ ~s.isRoot[w] THEN s
    ELSE IF h = "overflow" THEN Throw(s, "RangeError")
    ELSE Unlink(HideOrRemove(s, w, h = "no"), w)

RECURSIVE DetachEach(_, _, _)
\* for (let i = 0; i < children.length; ++i) children[i].detach()
DetachEach(s, copy, i) ==
    IF s.thrown # "" \/ i > Len(copy) THEN s
    ELSE DetachEach(Detach(s, copy[i], FALSE), copy, i + 1)

\* detachChildWidgets(): the loop runs over childrenInternal.slice().
DetachChildWidgets(s, w) == DetachEach(s, s.children[w], 1)

\* The assignments that end attach.
Link(s, w, parentWidget) ==
    IF s.thrown # "" THEN s
    ELSE [s EXCEPT !.parentWidget[w] = parentWidget,
                   !.children[parentWidget] = Append(@, w),
                   !.isRoot[w] = FALSE]

Attach(s, w, parentWidget) ==
    IF parentWidget = s.parentWidget[w] THEN s
    ELSE Link(IF s.parentWidget[w] # None THEN Detach(s, w, FALSE) ELSE s, w, parentWidget)

\* An "Update widget hierarchy" block that takes the widget off its parent
\* before it walks up from parentElement.
AttachToNearestDetachingFirst(s, w, parentElement) ==
    IF s.isRoot[w] THEN s
    ELSE IF NearestWidget(s.kids, parentElement) = None
    THEN Throw(Detach(s, w, FALSE), "Attempt to attach widget to orphan node")
    ELSE Attach(s, w, WidgetMapGet(NearestWidget(s.kids, parentElement)))

\* The "Update widget hierarchy" block of show.
AttachToNearest(s, w, parentElement) ==
    IF s.isRoot[w] THEN s
    ELSE IF NearestWidget(s.kids, parentElement) = None
    THEN Throw(s, "Attempt to attach widget to orphan node")
    ELSE Attach(s, w, WidgetMapGet(NearestWidget(s.kids, parentElement)))

Show(s, w, parentElement, insertBefore) ==
    ShowWidgetInternal(AttachToNearest(s, w, parentElement), w, parentElement, insertBefore)

MarkAsRoot(s, w) ==
    IF ParentElement(s.kids, w) # None THEN Throw(s, "Attempt to mark as root attached node")
    ELSE [s EXCEPT !.isRoot[w] = TRUE]

SetHideOnDetach(s, w) == [s EXCEPT !.hideOnDetach[w] = TRUE]

MarkAsExternallyManaged(s, w) ==
    IF s.parentWidget[w] # None
    THEN Throw(s, "Attempt to mark widget as externally managed after insertion to the DOM")
    ELSE [s EXCEPT !.externallyManaged[w] = TRUE]

\* Focus. dom_extension's Element.hasFocus(): the active element is the
\* element or lies below it.
ElementHasFocus(s, e) ==
    s.activeElement # None /\ e \in AncestorsOrSelf(s.kids, s.activeElement)

\* The platform's HTMLElement.focus(): an element of the document becomes
\* its active element, an element outside of it does not. document.body is
\* in the document, and at its top, unless the document has no active element.
ElementFocus(s, e) ==
    IF s.activeElement # None /\ "body" \in AncestorsOrSelf(s.kids, e)
    THEN Log([s EXCEPT !.activeElement = e], "focus", e, "", FALSE)
    ELSE s

\* Platform.DOMUtilities.deepActiveElement(document)
DeepActiveElement(s) == s.activeElement

SetDefaultFocusedElement(s, w, element) ==
    [s EXCEPT !.defaultFocusedElement[w] = element]

SetDefaultFocusedChild(s, w, child) ==
    IF s.parentWidget[child] # w
    THEN Throw(s, "Attempt to set non-child widget as default focused.")
    ELSE [s EXCEPT !.defaultFocusedChild[w] = child]

\* for (const child of this.childrenInternal) if (child.visibleInternal): the
\* first visible child, None when there is none.
FirstVisibleChild(s, w) ==
    LET vis == {i \in 1..Len(s.children[w]) : s.visible[s.children[w][i]]} IN
    IF vis = {} THEN None
    ELSE s.children[w][CHOOSE i \in vis : \A j \in vis : i <= j]

RECURSIVE Focus(_, _, _)
\* Widget.focus(); no element of the model is an XWidget.
Focus(s, w, seen) ==
    IF ~s.showing[w] THEN s
    ELSE IF s.defaultFocusedElement[w] # None
    THEN IF ~ElementHasFocus(s, s.defaultFocusedElement[w])
         THEN ElementFocus(s, s.defaultFocusedElement[w])
         ELSE s
    ELSE IF w \in seen THEN Throw(s, "RangeError")
    ELSE IF s.defaultFocusedChild[w] # None /\ s.visible[s.defaultFocusedChild[w]]
    THEN Focus(s, s.defaultFocusedChild[w], seen \cup {w})
    ELSE IF FirstVisibleChild(s, w) # None
    THEN Focus(s, FirstVisibleChild(s, w), seen \cup {w})
    ELSE s

HasFocus(s, w) == ElementHasFocus(s, w)

\* new WidgetFocusRestorer(widget)
NewWidgetFocusRestorer(s, widget) ==
    Focus([s EXCEPT !.restorerWidget = widget, !.restorerPrevious = DeepActiveElement(s)],
          widget, {})

\* WidgetFocusRestorer.restore() that gives the focus back whenever an
\* element was recorded.
RestoreWithoutAsking(s) ==
    IF s.restorerWidget = None THEN s
    ELSE [(IF s.restorerPrevious # None
           THEN ElementFocus(s, s.restorerPrevious)
           ELSE s) EXCEPT !.restorerPrevious = None, !.restorerWidget = None]

\* WidgetFocusRestorer.restore()
Restore(s) ==
    IF s.restorerWidget = None THEN s
    ELSE [(IF HasFocus(s, s.restorerWidget) /\ s.restorerPrevious # None
           THEN ElementFocus(s, s.restorerPrevious)
           ELSE s) EXCEPT !.restorerPrevious = None, !.restorerWidget = None]

-----------------------------------------------------------------------------
\* The DOM mutation guard: Element.prototype.appendChild and the others.

\* The message of the guard of appendChild and insertBefore.
AddGuardMessage == "Attempt to add widget via regular DOM operation."

\* The guard that refuses only widget elements that are in no parent.
AppendChildThrowsIfDetached(s, this, node) ==
    WidgetMapGet(node) # None /\ ParentElement(s.kids, node) = None

AppendChildThrows(s, this, node) ==
    WidgetMapGet(node) # None /\ ParentElement(s.kids, node) # this

GuardedAppendChild(s, this, node) ==
    IF AppendChildThrows(s, this, node)
    THEN Throw(s, AddGuardMessage)
    ELSE OriginalAppendChild(s, this, node)

GuardedInsertBefore(s, this, node, child) ==
    IF AppendChildThrows(s, this, node)
    THEN Throw(s, AddGuardMessage)
    ELSE OriginalInsertBefore(s, this, node, child)

RemoveChildThrows(s, child) ==
    s.counter[child] # 0 \/ WidgetMapGet(child) # None

GuardedRemoveChild(s, this, child) ==
    IF RemoveChildThrows(s, child)
    THEN Throw(s, "Attempt to remove element containing widget via regular DOM operation")
    ELSE OriginalRemoveChild(s, this, child)

RemoveChildrenThrows(s, this) == s.counter[this] # 0

GuardedRemoveChildren(s, this) ==
    IF RemoveChildrenThrows(s, this)
    THEN Throw(s, "Attempt to remove element containing widget via regular DOM operation")
    ELSE OriginalRemoveChildren(s, this)

-----------------------------------------------------------------------------
\* The state machine

VARIABLES
    kids,                   \* the DOM: each element's ordered children
    counter,                \* widgetCounterMap (a missing entry is 0)
    parentWidget,           \* parentWidgetInternal
    children,               \* childrenInternal
    visible,                \* visibleInternal
    showing,                \* isShowingInternal
    isRoot,
    hideOnDetach,
    externallyManaged,
    hidden,                 \* the element carries the class 'hidden'
    notificationDepth,
    invalidationsSuspended,
    invalidationsRequested,
    constraintsInternal,
    cachedConstraints,
    defaultFocusedChild,
    defaultFocusedElement,
    activeElement,          \* the document's active element (null when none)
    restorerWidget,         \* the fields of the WidgetFocusRestorer last created
    restorerPrevious,
    calls,                  \* the hooks the last public call invoked, in order
    trace,                  \* what the last public call did inside, in order
    lastPassHook,           \* which of wasShown and willHide ran last on each widget
    last,                   \* the last public call, its arguments and what it threw
    ncalls                  \* the number of public calls made so far

treeVars == <<kids, counter, parentWidget, children, visible, showing, isRoot,
              hideOnDetach, externallyManaged, hidden, notificationDepth,
              invalidationsSuspended, invalidationsRequested, constraintsInternal,
              cachedConstraints, defaultFocusedChild>>

vars == <<kids, counter, parentWidget, children, visible, showing, isRoot,
          hideOnDetach, externallyManaged, hidden, notificationDepth,
          invalidationsSuspended, invalidationsRequested, constraintsInternal,
          cachedConstraints, defaultFocusedChild, defaultFocusedElement, activeElement,
          restorerWidget, restorerPrevious, calls, trace, lastPassHook, last, ncalls>>

\* The current state as the record the operators work on, entering a public
\* call whose overridden hook is hook (<<>> when no hook is overridden).
Entry(hook) ==
    [kids |-> kids, counter |-> counter, parentWidget |-> parentWidget,
     children |-> children, visible |-> visible, showing |-> showing,
     isRoot |-> isRoot, hideOnDetach |-> hideOnDetach,
     externallyManaged |-> externallyManaged, hidden |-> hidden,
     notificationDepth |-> notificationDepth,
     invalidationsSuspended |-> invalidationsSuspended,
     invalidationsRequested |-> invalidationsRequested,
     constraintsInternal |-> constraintsInternal,
     cachedConstraints |-> cachedConstraints,
     defaultFocusedChild |-> defaultFocusedChild,
     defaultFocusedElement |-> defaultFocusedElement,
     activeElement |-> activeElement,
     restorerWidget |-> restorerWidget, restorerPrevious |-> restorerPrevious,
     thrown |-> "", calls |-> <<>>, trace |-> <<>>, hook |-> hook]

Cur == Entry(<<>>)

\* The positions of the log q at which wasShown or willHide ran on w.
PassHooksOf(q, w) ==
    {i \in 1..Len(q) : q[i].w = w /\ q[i].ev \in {"wasShown", "willHide"}}

\* The one of wasShown and willHide that ran last on w: the last the log q of
\* a call has, or else the one that had run last before the call.
LastPassHook(q, w, before) ==
    IF PassHooksOf(q, w) = {} THEN before
    ELSE q[CHOOSE i \in PassHooksOf(q, w) : \A j \in PassHooksOf(q, w) : j <= i].ev

NoCall == [op |-> "none", w |-> None, at |-> None, override |-> FALSE, thrown |-> ""]

\* The state a public call leaves behind, whether it returned or threw.
ReturnWithin(r, call, max) ==
    /\ ncalls < max
    /\ \A e \in Elem : r.counter[e] \in (0 - MaxCounter)..MaxCounter
    /\ ncalls' = ncalls + 1
    /\ kids' = r.kids
    /\ counter' = r.counter
    /\ parentWidget' = r.parentWidget
    /\ children' = r.children
    /\ visible' = r.visible
    /\ showing' = r.showing
    /\ isRoot' = r.isRoot
    /\ hideOnDetach' = r.hideOnDetach
    /\ externallyManaged' = r.externallyManaged
    /\ hidden' = r.hidden
    /\ notificationDepth' = r.notificationDepth
    /\ invalidationsSuspended' = r.invalidationsSuspended
    /\ invalidationsRequested' = r.invalidationsRequested
    /\ constraintsInternal' = r.constraintsInternal
    /\ cachedConstraints' = r.cachedConstraints
    /\ defaultFocusedChild' = r.defaultFocusedChild
    /\ defaultFocusedElement' = r.defaultFocusedElement
    /\ activeElement' = r.activeElement
    /\ restorerWidget' = r.restorerWidget
    /\ restorerPrevious' = r.restorerPrevious
    /\ calls' = r.calls
    /\ trace' = r.trace
    /\ lastPassHook' = [w \in Widgets |-> LastPassHook(r.trace, w, lastPassHook[w])]
    /\ last' = [call EXCEPT !.thrown = r.thrown]

Return(r, call) == ReturnWithin(r, call, MaxCalls)

\* After construction: no widget is attached, shown or flagged; the plain
\* element d1 is a child of w1's element (w1.element.appendChild(d1)), body
\* is the top of the document and its active element; no WidgetFocusRestorer
\* has been created.
Init ==
    /\ kids = [e \in Elem |-> IF e = "w1" THEN <<"d1">> ELSE <<>>]
    /\ counter = [e \in Elem |-> 0]
    /\ parentWidget = [w \in Widgets |-> None]
    /\ children = [w \in Widgets |-> <<>>]
    /\ visible = [w \in Widgets |-> FALSE]
    /\ showing = [w \in Widgets |-> FALSE]
    /\ isRoot = [w \in Widgets |-> FALSE]
    /\ hideOnDetach = [w \in Widgets |-> FALSE]
    /\ externallyManaged = [w \in Widgets |-> FALSE]
    /\ hidden = [w \in Widgets |-> FALSE]
    /\ notificationDepth = [w \in Widgets |-> 0]
    /\ invalidationsSuspended = [w \in Widgets |-> 0]
    /\ invalidationsRequested = [w \in Widgets |-> FALSE]
    /\ constraintsInternal = [w \in Widgets |-> Undef]
    /\ cachedConstraints = [w \in Widgets |-> Undef]
    /\ defaultFocusedChild = [w \in Widgets |-> None]
    /\ defaultFocusedElement = [w \in Widgets |-> None]
    /\ activeElement = "body"
    /\ restorerWidget = None
    /\ restorerPrevious = None
    /\ calls = <<>>
    /\ trace = <<>>
    /\ lastPassHook = [w \in Widgets |-> "none"]
    /\ last = NoCall
    /\ ncalls = 0

\* The hooks a subclass may override to call back into the tree, and the
\* calls they make.
HookKinds == {"wasShown", "willHide"}

HookCalls == {"showWidget", "hideWidget", "detach"}

RECURSIVE Subtree(_, _)
\* w and the widgets below it; the was-shown and will-hide passes of a call
\* on w run no hook of any other widget.
Subtree(w, seen) ==
    IF w \in seen THEN {}
    ELSE {w} \cup UNION {Subtree(c, seen \cup {w}) : c \in Range(children[w])}

\* An overridden hook: <<kind, the widget whose hook it is, the call it makes,
\* the widget it calls>>.
Hooks == HookKinds \X Widgets \X HookCalls \X Widgets

\* A public call on w runs with no overridden hook, or with one of a widget
\* of w's subtree.
HookAllowed(w, hook) ==
    IF hook = <<>> THEN TRUE
    ELSE ncalls < MaxHookedCalls /\ hook[2] \in Subtree(w, {})

\* W.show(parentElement, insertBefore): insertBefore is null or a child of
\* parentElement other than W's element.
CallShow(w, parentElement, insertBefore, hook) ==
    /\ HookAllowed(w, hook)
    /\ insertBefore \in {None} \cup (Range(kids[parentElement]) \ {w})
    /\ Return(Show(Entry(hook), w, parentElement, insertBefore),
              [NoCall EXCEPT !.op = "show", !.w = w, !.at = parentElement])

CallShowWidget(w, hook) ==
    /\ HookAllowed(w, hook)
    /\ Return(ShowWidget(Entry(hook), w),
              [NoCall EXCEPT !.op = "showWidget", !.w = w])

CallHideWidget(w, hook) ==
    /\ HookAllowed(w, hook)
    /\ Return(HideWidget(Entry(hook), w),
              [NoCall EXCEPT !.op = "hideWidget", !.w = w])

CallDetach(w, overrideHideOnDetach, hook) ==
    /\ HookAllowed(w, hook)
    /\ Return(Detach(Entry(hook), w, overrideHideOnDetach),
              [NoCall EXCEPT !.op = "detach", !.w = w, !.override = overrideHideOnDetach])

CallDetachChildWidgets(w, hook) ==
    /\ HookAllowed(w, hook)
    /\ Return(DetachChildWidgets(Entry(hook), w),
              [NoCall EXCEPT !.op = "detachChildWidgets", !.w = w])

\* W.calculateConstraints() called directly: the value goes to the caller,
\* the caches that a VBox fills in its visible children stay.
CallCalculateConstraints(w) ==
    Return(CalculateConstraints(Cur, w, {}).s,
           [NoCall EXCEPT !.op = "calculateConstraints", !.w = w])

CallMarkAsRoot(w) ==
    Return(MarkAsRoot(Cur, w), [NoCall EXCEPT !.op = "markAsRoot", !.w = w])

CallSetHideOnDetach(w) ==
    Return(SetHideOnDetach(Cur, w), [NoCall EXCEPT !.op = "setHideOnDetach", !.w = w])

CallMarkAsExternallyManaged(w) ==
    Return(MarkAsExternallyManaged(Cur, w),
           [NoCall EXCEPT !.op = "markAsExternallyManaged", !.w = w])

\* The widget API, the hooks being the base class's empty methods.
Next ==
    \E w \in Widgets :
        \/ \E p \in Elem, b \in Elem \cup {None} : CallShow(w, p, b, <<>>)
        \/ CallShowWidget(w, <<>>)
        \/ CallHideWidget(w, <<>>)
        \/ \E o \in BOOLEAN : CallDetach(w, o, <<>>)
        \/ CallDetachChildWidgets(w, <<>>)
        \/ CallCalculateConstraints(w)
        \/ CallMarkAsRoot(w)
        \/ CallSetHideOnDetach(w)
        \/ CallMarkAsExternallyManaged(w)

Spec == Init /\ [][Next]_vars

\* The call just made returned; it did not throw.
Returned == last'.thrown = ""

\* The runs all of whose calls returned: a call that throws is an error of the
\* caller, and the run ends there.
NextReturned ==
    \E w \in Widgets :
        \/ (\E p \in Elem, b \in Elem \cup {None} : CallShow(w, p, b, <<>>)) /\ Returned
        \/ CallShowWidget(w, <<>>) /\ Returned
        \/ CallHideWidget(w, <<>>) /\ Returned
        \/ (\E o \in BOOLEAN : CallDetach(w, o, <<>>)) /\ Returned
        \/ CallDetachChildWidgets(w, <<>>) /\ Returned
        \/ CallCalculateConstraints(w) /\ Returned
        \/ CallMarkAsRoot(w) /\ Returned
        \/ CallSetHideOnDetach(w) /\ Returned
        \/ CallMarkAsExternallyManaged(w) /\ Returned

SpecReturned == Init /\ [][NextReturned]_vars

\* The widget API with one overridden hook per public call.
HookedCall ==
    \E w \in Widgets, h \in Hooks :
        \/ \E p \in Elem : CallShow(w, p, None, h)
        \/ CallShowWidget(w, h)
        \/ CallHideWidget(w, h)
        \/ CallDetach(w, FALSE, h)
        \/ CallDetachChildWidgets(w, h)

NextReentrant == Next \/ HookedCall

SpecReentrant == Init /\ [][NextReentrant]_vars

\* The same, the runs all of whose outermost calls returned.
HookedCallReturned ==
    \E w \in Widgets, h \in Hooks :
        \/ (\E p \in Elem : CallShow(w, p, None, h)) /\ Returned
        \/ CallShowWidget(w, h) /\ Returned
        \/ CallHideWidget(w, h) /\ Returned
        \/ CallDetach(w, FALSE, h) /\ Returned
        \/ CallDetachChildWidgets(w, h) /\ Returned

NextReentrantReturned == NextReturned \/ HookedCallReturned

SpecReentrantReturned == Init /\ [][NextReentrantReturned]_vars

\* Code outside the widget system using the guarded DOM primitives.
CallAppendChild(this, node) ==
    /\ ncalls < MaxDomCalls
    /\ Return(GuardedAppendChild(Cur, this, node),
              [NoCall EXCEPT !.op = "appendChild", !.w = node, !.at = this])

CallInsertBefore(this, node, child) ==
    /\ ncalls < MaxDomCalls
    /\ child \in Range(kids[this])
    /\ Return(GuardedInsertBefore(Cur, this, node, child),
              [NoCall EXCEPT !.op = "insertBefore", !.w = node, !.at = this])

CallRemoveChild(this, child) ==
    /\ ncalls < MaxDomCalls
    /\ child \in Range(kids[this])
    /\ Return(GuardedRemoveChild(Cur, this, child),
              [NoCall EXCEPT !.op = "removeChild", !.w = child, !.at = this])

CallRemoveChildren(this) ==
    /\ ncalls < MaxDomCalls
    /\ Return(GuardedRemoveChildren(Cur, this),
              [NoCall EXCEPT !.op = "removeChildren", !.at = this])

DomCall ==
    \E this \in Elem :
        \/ \E node \in Elem : CallAppendChild(this, node)
        \/ \E node \in Elem, child \in Elem : CallInsertBefore(this, node, child)
        \/ \E child \in Elem : CallRemoveChild(this, child)
        \/ CallRemoveChildren(this)

NextDom == Next \/ DomCall

SpecDom == Init /\ [][NextDom]_vars

\* show() called after a call that may have thrown: it runs only if that
\* call returned.
ThenShow(s, w, parentElement) ==
    IF s.thrown # "" THEN s ELSE Show(s, w, parentElement, None)

\* W.detach() followed immediately by W.show(E), E being the DOM parent of
\* W's element before the detach; W is attached.
CallDetachThenShow(w) ==
    /\ parentWidget[w] # None \/ isRoot[w]
    /\ ParentElement(kids, w) # None
    /\ Return(ThenShow(Detach(Cur, w, FALSE), w, ParentElement(kids, w)),
              [NoCall EXCEPT !.op = "detachThenShow", !.w = w,
                             !.at = ParentElement(kids, w)])

NextRoundTrip ==
    \/ NextReturned
    \/ \E w \in Widgets : CallDetachThenShow(w) /\ Returned

SpecRoundTrip == Init /\ [][NextRoundTrip]_vars

\* The chain R > A > L of showing widgets is built by the first four calls
\* of a run: w1.markAsRoot(); w1.show(document.body); w2.show(w1.element);
\* w3.show(w2.element), w1 a plain Widget, w2 a VBox, w3 a plain Widget.
BuildChain ==
    \/ ncalls = 0 /\ CallMarkAsRoot("w1")
    \/ ncalls = 1 /\ CallShow("w1", "body", None, <<>>)
    \/ ncalls = 2 /\ CallShow("w2", "w1", None, <<>>)
    \/ ncalls = 3 /\ CallShow("w3", "w2", None, <<>>)

\* The state a layout call leaves behind; layout calls follow the chain's
\* construction.
ReturnLayout(r, call) ==
    /\ ncalls >= 4
    /\ ReturnWithin(r, call, 4 + MaxLayoutCalls)

CallSetMinimumSize(w, width, height) ==
    ReturnLayout(SetMinimumSize(Cur, w, width, height),
                 [NoCall EXCEPT !.op = "setMinimumSize", !.w = w])

CallSetMinimumAndPreferredSizes(w, width, height, preferredWidth, preferredHeight) ==
    ReturnLayout(SetMinimumAndPreferredSizes(Cur, w, width, height,
                                             preferredWidth, preferredHeight),
                 [NoCall EXCEPT !.op = "setMinimumAndPreferredSizes", !.w = w])

CallInvalidateConstraints(w) ==
    ReturnLayout(InvalidateConstraints(Cur, w, 0),
                 [NoCall EXCEPT !.op = "invalidateConstraints", !.w = w])

\* W.constraints(): the value goes to the caller, the cache it fills stays.
CallConstraints(w) ==
    ReturnLayout(ConstraintsOf(Cur, w, {}).s, [NoCall EXCEPT !.op = "constraints", !.w = w])

CallCalculateConstraintsOnChain(w) ==
    ReturnLayout(CalculateConstraints(Cur, w, {}).s,
                 [NoCall EXCEPT !.op = "calculateConstraints", !.w = w])

CallDoLayout(w) ==
    ReturnLayout(DoLayout(Cur, w), [NoCall EXCEPT !.op = "doLayout", !.w = w])

CallDoResize(w) ==
    ReturnLayout(DoResize(Cur, w), [NoCall EXCEPT !.op = "doResize", !.w = w])

CallSuspendInvalidations(w) ==
    /\ invalidationsSuspended[w] < MaxSuspended
    /\ ReturnLayout(SuspendInvalidations(Cur, w),
                    [NoCall EXCEPT !.op = "suspendInvalidations", !.w = w])

\* resumeInvalidations() matching an earlier suspendInvalidations().
CallResumeInvalidations(w) ==
    /\ invalidationsSuspended[w] > 0
    /\ ReturnLayout(ResumeInvalidations(Cur, w),
                    [NoCall EXCEPT !.op = "resumeInvalidations", !.w = w])

CallHideShown(w) ==
    ReturnLayout(HideWidget(Cur, w), [NoCall EXCEPT !.op = "hideWidget", !.w = w])

CallShowHidden(w) ==
    ReturnLayout(ShowWidget(Cur, w), [NoCall EXCEPT !.op = "showWidget", !.w = w])

\* Layout calls on the chain.
LayoutCall ==
    \E w \in Widgets :
        \/ \E width \in Sizes, height \in Sizes : CallSetMinimumSize(w, width, height)
        \/ \E width \in Sizes, height \in Sizes, preferred \in Sizes :
               CallSetMinimumAndPreferredSizes(w, width, height, preferred, preferred)
        \/ CallInvalidateConstraints(w)
        \/ CallConstraints(w)
        \/ CallCalculateConstraintsOnChain(w)
        \/ CallDoLayout(w)
        \/ CallDoResize(w)
        \/ CallSuspendInvalidations(w)
        \/ CallResumeInvalidations(w)
        \/ CallHideShown(w)
        \/ CallShowHidden(w)

NextLayout == BuildChain \/ LayoutCall

SpecLayout == Init /\ [][NextLayout]_vars

\* The state a focus call leaves behind; focus calls follow the chain's
\* construction.
ReturnFocus(r, call) ==
    /\ ncalls >= 4
    /\ ReturnWithin(r, call, 4 + MaxFocusCalls)

\* Code outside the widget system, or the user, moves the focus to an element.
CallElementFocus(e) ==
    ReturnFocus(ElementFocus(Cur, e), [NoCall EXCEPT !.op = "element.focus", !.at = e])

CallSetDefaultFocusedElement(w, element) ==
    ReturnFocus(SetDefaultFocusedElement(Cur, w, element),
                [NoCall EXCEPT !.op = "setDefaultFocusedElement", !.w = w, !.at = element])

CallSetDefaultFocusedChild(w, child) ==
    ReturnFocus(SetDefaultFocusedChild(Cur, w, child),
                [NoCall EXCEPT !.op = "setDefaultFocusedChild", !.w = w, !.at = child])

CallFocus(w) ==
    ReturnFocus(Focus(Cur, w, {}), [NoCall EXCEPT !.op = "focus", !.w = w])

\* hideWidget() on a widget that does not hold the focus.
CallHideUnfocused(w) ==
    /\ ~HasFocus(Cur, w)
    /\ ReturnFocus(HideWidget(Cur, w), [NoCall EXCEPT !.op = "hideWidget", !.w = w])

\* new WidgetFocusRestorer(w); the call records the element that had the focus.
CallNewWidgetFocusRestorer(w) ==
    ReturnFocus(NewWidgetFocusRestorer(Cur, w),
                [NoCall EXCEPT !.op = "new WidgetFocusRestorer", !.w = w,
                               !.at = DeepActiveElement(Cur)])

\* restore() on the WidgetFocusRestorer last created.
CallRestore ==
    ReturnFocus(Restore(Cur), [NoCall EXCEPT !.op = "restore", !.w = restorerWidget,
                                             !.at = restorerPrevious])

FocusCall ==
    \/ \E e \in Elem : CallElementFocus(e)
    \/ \E w \in Widgets, e \in Elem \ {"body"} : CallSetDefaultFocusedElement(w, e)
    \/ \E w \in Widgets, c \in Widgets : CallSetDefaultFocusedChild(w, c)
    \/ \E w \in Widgets : CallFocus(w)
    \/ \E w \in Widgets : CallHideUnfocused(w)
    \/ \E w \in Widgets : CallNewWidgetFocusRestorer(w)
    \/ CallRestore

NextFocus == BuildChain \/ FocusCall

SpecFocus == Init /\ [][NextFocus]_vars

\* The state that a call made on the chain, one of its hooks overridden or
\* none, leaves behind.
ReturnNested(r, call) ==
    /\ ncalls >= 4
    /\ ReturnWithin(r, call, 4 + MaxNestedCalls)

\* No hook is overridden, or one of a widget of w's subtree.
HookBelow(w, hook) ==
    IF hook = <<>> THEN TRUE ELSE hook[2] \in Subtree(w, {})

CallShowWidgetOnChain(w, hook) ==
    /\ HookBelow(w, hook)
    /\ ReturnNested(ShowWidget(Entry(hook), w), [NoCall EXCEPT !.op = "showWidget", !.w = w])

CallHideWidgetOnChain(w, hook) ==
    /\ HookBelow(w, hook)
    /\ ReturnNested(HideWidget(Entry(hook), w), [NoCall EXCEPT !.op = "hideWidget", !.w = w])

CallDetachOnChain(w, hook) ==
    /\ HookBelow(w, hook)
    /\ ReturnNested(Detach(Entry(hook), w, FALSE), [NoCall EXCEPT !.op = "detach", !.w = w])

CallShowOnChain(w, parentElement) ==
    ReturnNested(Show(Cur, w, parentElement, None),
                 [NoCall EXCEPT !.op = "show", !.w = w, !.at = parentElement])

CallSetHideOnDetachOnChain(w) ==
    ReturnNested(SetHideOnDetach(Cur, w), [NoCall EXCEPT !.op = "setHideOnDetach", !.w = w])

NestedCall ==
    \/ \E w \in Widgets, h \in Hooks \cup {<<>>} :
           \/ CallShowWidgetOnChain(w, h)
           \/ CallHideWidgetOnChain(w, h)
           \/ CallDetachOnChain(w, h)
    \/ \E w \in Widgets :
           \/ \E p \in Elem : CallShowOnChain(w, p)
           \/ CallSetHideOnDetachOnChain(w)

NextNested == BuildChain \/ NestedCall

SpecNested == Init /\ [][NextNested]_vars

\* The same, the runs all of whose calls returned.
NextNestedReturned ==
    \/ BuildChain
    \/ \E w \in Widgets, h \in Hooks \cup {<<>>} :
           \/ CallShowWidgetOnChain(w, h) /\ Returned
           \/ CallHideWidgetOnChain(w, h) /\ Returned
           \/ CallDetachOnChain(w, h) /\ Returned
    \/ \E w \in Widgets :
           \/ (\E p \in Elem : CallShowOnChain(w, p)) /\ Returned
           \/ CallSetHideOnDetachOnChain(w) /\ Returned

SpecNestedReturned == Init /\ [][NextNestedReturned]_vars

-----------------------------------------------------------------------------
\* Claims

\* C1. Once the outermost call has returned, every widget is showing if and
\* only if it is visible and it is a root or its parent widget is showing.
\* A wasShown hook that hides its own widget breaks it: hideWidgetInternal's
\* will-hide pass returns at inNotification() and never clears the flag.
C1_ShowingIffVisibleAndParentShowing ==
    \A w \in Widgets :
        showing[w] <=> (visible[w] /\ (isRoot[w] \/ (parentWidget[w] # None
                                                        /\ showing[parentWidget[w]])))

\* The widget elements below a that are not externally managed.
TrackedBelow(a) ==
    {e \in Descendants(kids, a) : WidgetMapGet(e) # None /\ ~externallyManaged[e]}

\* C2. After calls that returned, the widget counter of every element is the
\* number of widget elements among its DOM descendants that are not externally
\* managed.
C2_CounterCountsTrackedDescendants ==
    \A a \in Elem : counter[a] = Cardinality(TrackedBelow(a))

\* C3. The guarded removeChild(c) throws whenever c is a widget element or a
\* tracked widget element lies below c, and the guarded removeChildren() of c
\* throws whenever a tracked widget element lies below c.
C3_RemovalOfTrackedWidgetsThrows ==
    \A c \in Elem :
        /\ (ParentElement(kids, c) # None /\ (WidgetMapGet(c) # None \/ TrackedBelow(c) # {}))
               => RemoveChildThrows(Cur, c)
        /\ TrackedBelow(c) # {} => RemoveChildrenThrows(Cur, c)

\* The walk from W's DOM parent upwards ends at W's parent widget, and for a
\* root it finds no widget.
DomParentAgrees(w) ==
    IF isRoot[w] THEN NearestWidget(kids, ParentElement(kids, w)) = None
    ELSE NearestWidget(kids, ParentElement(kids, w)) = parentWidget[w]

\* C4. After every call, for every widget whose element has a DOM parent, the
\* nearest widget above that DOM parent is the widget's parent widget, for a
\* root there is none; a widget with no parent widget that is not a root is
\* never inside another widget's DOM subtree.
\* show() links the widget to the parent it finds before the DOM operation
\* that may throw, which leaves an attached widget under another widget's
\* element.
C4_DomParentIsLogicalParent ==
    \A w \in Widgets : ParentElement(kids, w) # None => DomParentAgrees(w)

\* The part of C4 that is about attached widgets (those that have a parent
\* widget or are a root): a widget detached under hide-on-detach keeps its
\* place in the DOM and has no parent widget, an attached one is expected
\* under its parent widget.
C4_AttachedDomParentIsLogicalParent ==
    \A w \in Widgets :
        (ParentElement(kids, w) # None /\ (isRoot[w] \/ parentWidget[w] # None))
            => DomParentAgrees(w)

\* C5. The children list of every widget holds exactly the widgets whose
\* parent widget it is, each once, and no widget is in two children lists.
C5_ChildrenAreTheWidgetsWithThatParent ==
    /\ \A w \in Widgets :
           /\ Range(children[w]) = {c \in Widgets : parentWidget[c] = w}
           /\ Cardinality(Range(children[w])) = Len(children[w])
    /\ \A c \in Widgets :
           Cardinality({w \in Widgets : c \in Range(children[w])}) <= 1

\* C5 witness: a widget was detached from a parent that keeps another child;
\* hide-on-detach left its element where it was.
C5_Witness ==
    /\ last.op = "detach" /\ last.thrown = ""
    /\ parentWidget[last.w] = None
    /\ ParentElement(kids, last.w) # None
    /\ NearestWidget(kids, ParentElement(kids, last.w)) # None
    /\ children[NearestWidget(kids, ParentElement(kids, last.w))] # <<>>

\* W.show(parentElement) is called while W is visible and its element is
\* already a child of parentElement.
ShowAgain ==
    /\ last'.op = "show"
    /\ visible[last'.w]
    /\ ParentElement(kids, last'.w) = last'.at

\* C6. Showing a visible widget again under the DOM parent it already has is
\* a no-op: the call returns, no hook runs, and the DOM, the counters, the
\* parent links, the children lists and every flag are as before.
\* A widget can be visible and in place without being attached: a willHide
\* hook that calls showWidget() during a hide-on-detach detach leaves it so,
\* and show() then links it again in attach() before the early return.
C6_ShowAgainIsNoOp ==
    [][ShowAgain => (last'.thrown = "" /\ calls' = <<>> /\ UNCHANGED treeVars)]_vars

\* W or a widget below it has the hide-on-detach flag.
HideOnDetachBelow(w) == \E d \in Subtree(w, {}) : hideOnDetach[d]

\* W.detach() is called without overrideHideOnDetach while W's element is in
\* the DOM and W or a descendant has the hide-on-detach flag.
DetachInPlace ==
    /\ last'.op = "detach" /\ ~last'.override
    /\ ParentElement(kids, last'.w) # None
    /\ HideOnDetachBelow(last'.w)

\* C8. Such a detach leaves the element where it is in the DOM, marked
\* hidden, leaves every counter as it was, and does not call W.onDetach.
\* shouldHideOnDetach() answers no for a descendant whose element is out of
\* the DOM, which a show() that threw after attach() leaves behind.
C8_HideOnDetachKeepsElement ==
    [][DetachInPlace => /\ kids' = kids
                        /\ hidden'[last'.w]
                        /\ counter' = counter
                        /\ <<"onDetach", last'.w>> \notin Range(calls')]_vars

\* How many times hook h is in the log q.
Count(q, h) == Cardinality({i \in 1..Len(q) : q[i] = h})

\* W.detach(true) is called on an attached widget with the hide-on-detach
\* flag whose element is in the DOM.
DetachOverriding ==
    /\ last'.op = "detach" /\ last'.override
    /\ hideOnDetach[last'.w]
    /\ parentWidget[last'.w] # None \/ isRoot[last'.w]
    /\ ParentElement(kids, last'.w) # None

\* C9. detach(true) of an attached hide-on-detach widget removes its element
\* from the DOM and calls W.onDetach exactly once, whether W was visible or
\* had been hidden with hideWidget().
C9_OverrideRemovesAndCallsOnDetach ==
    [][DetachOverriding => /\ ParentElement(kids', last'.w) = None
                           /\ Count(calls', <<"onDetach", last'.w>>) = 1]_vars

\* C10. The guarded appendChild and insertBefore on T throw, and change
\* nothing, exactly when the node is a widget element whose DOM parent is not
\* T; otherwise the guard lets the call through to the DOM.
C10_AddingForeignWidgetThrows ==
    [][last'.op \in {"appendChild", "insertBefore"} =>
         IF WidgetMapGet(last'.w) # None /\ ParentElement(kids, last'.w) # last'.at
         THEN last'.thrown = AddGuardMessage /\ UNCHANGED treeVars
         ELSE last'.thrown # AddGuardMessage]_vars

\* C10 witness: the guard refused a widget element that is in the DOM under
\* another parent.
C10_Witness ==
    /\ last.op \in {"appendChild", "insertBefore"}
    /\ last.thrown = AddGuardMessage
    /\ WidgetMapGet(last.w) # None
    /\ ParentElement(kids, last.w) # None

\* C7. W.detach() followed immediately by W.show(E), E the DOM parent W's
\* element had, restores the tree: W has the parent widget it had, that
\* parent's children list has the same members, W and the widgets below it
\* are visible and showing as before, and every counter has its old value.
C7_DetachThenShowRestores ==
    [][last'.op = "detachThenShow" =>
         /\ parentWidget'[last'.w] = parentWidget[last'.w]
         /\ \A p \in Widgets : Range(children'[p]) = Range(children[p])
         /\ \A d \in Subtree(last'.w, {}) :
                visible'[d] = visible[d] /\ showing'[d] = showing[d]
         /\ counter' = counter]_vars

\* The positions of the log q, and of the log of the last call, at which hook
\* kind ran, or branch kind was taken, on widget w.
FiredIn(q, kind, w) == {i \in 1..Len(q) : q[i].ev = kind /\ q[i].w = w}

Fired(kind, w) == FiredIn(trace, kind, w)

\* C11. In every call, a widget's wasShown hook runs before the wasShown hook
\* of each of its visible children, which does run; the willHide hooks of all
\* its visible children run before its own willHide hook; and its showing
\* flag is still set while its willHide hook runs and cleared by the time the
\* hook of its parent runs.
C11_HooksAreOrderedAcrossTheTree ==
    \A p \in Widgets : \A c \in Range(children[p]) :
        /\ \A i \in Fired("wasShown", p) :
               visible[c] => \E j \in Fired("wasShown", c) : i < j
        /\ \A j \in Fired("wasShown", c) : \A i \in Fired("wasShown", p) : i < j
        /\ \A j \in Fired("willHide", p) :
               /\ trace[j].showing[p]
               /\ visible[c] => \E i \in Fired("willHide", c) :
                                    i < j /\ trace[i].showing[c] /\ ~trace[j].showing[c]
        /\ \A i \in Fired("willHide", c) : \A j \in Fired("willHide", p) : i < j

RECURSIVE PathUp(_, _)
\* w and its ancestors in the widget tree.
PathUp(parent, w) == IF w = None THEN {} ELSE {w} \cup PathUp(parent, parent[w])

RECURSIVE StopOf(_, _, _, _, _)
\* The first widget, from w upwards, that has no parent or whose recomputed
\* constraints (its explicit ones, or else the cache the pass has left) equal
\* the value its cache had before the call.
StopOf(parent, before, explicit, after, w) ==
    LET recomputed == IF explicit[w] # Undef THEN explicit[w] ELSE after[w] IN
    IF parent[w] = None \/ (before[w] # Undef /\ recomputed = before[w]) THEN w
    ELSE StopOf(parent, before, explicit, after, parent[w])

\* What C12 says of a call L.setMinimumSize(width, height) that returned, L
\* and its ancestors showing and none of them suspended.
InvalidationStopsAtFirstUnchanged ==
    LET l == last'.w
        stop == StopOf(parentWidget, cachedConstraints, constraintsInternal',
                       cachedConstraints', l)
        below == {a \in PathUp(parentWidget, l) : a # stop /\ stop \in PathUp(parentWidget, a)} IN
    (/\ last'.op = "setMinimumSize" /\ last'.thrown = ""
     /\ \A a \in PathUp(parentWidget, l) : showing[a] /\ invalidationsSuspended[a] = 0)
    => /\ \A a \in Widgets : FiredIn(trace', "forward", a) # {} <=> a \in below
       /\ \A a \in Widgets : FiredIn(trace', "invalidateConstraints", a) # {}
                                   <=> a \in below \cup {stop}
       /\ \A a \in Widgets :
              Cardinality(FiredIn(trace', "onLayout", a)) = (IF a = stop THEN 1 ELSE 0)
       /\ \A a \in Widgets : \A i \in FiredIn(trace', "onResize", a) :
              /\ a # stop /\ stop \in PathUp(parentWidget, a)
              /\ \A j \in FiredIn(trace', "onLayout", stop) : j < i
       /\ \A a \in below : FiredIn(trace', "onResize", a) # {}

\* The scenario of C12: the chain just built, w3.setMinimumSize(0, 20).
ScenarioOfTheChain ==
    (/\ ncalls = 4 /\ last'.op = "setMinimumSize" /\ last'.w = "w3"
     /\ constraintsInternal'["w3"] = <<<<0, 20>>, <<0, 20>>>>)
    => /\ cachedConstraints'["w2"] # Undef
       /\ cachedConstraints'["w2"][1][2] >= 20
       /\ FiredIn(trace', "onLayout", "w1") # {}
       /\ FiredIn(trace', "onLayout", "w2") = {}
       /\ FiredIn(trace', "onLayout", "w3") = {}

\* C12. L.setMinimumSize(width, height) on a chain of showing widgets, none
\* suspended, invalidates upwards through every widget whose recomputed
\* constraints differ from its cache, stops at the first whose recomputed
\* constraints equal the cache or that has no parent, and runs the layout
\* pass (onLayout, then the resize of what is below) on that widget only; on
\* the chain w1 > w2 (VBox) > w3, w3.setMinimumSize(0, 20) brings w2's
\* constraints to a height of at least 20 and the layout pass runs on w1.
C12_InvalidationStopsAtFirstUnchanged ==
    [][InvalidationStopsAtFirstUnchanged /\ ScenarioOfTheChain]_vars

\* C12 witness: w3.setMinimumSize with the constraints it already had, after
\* the scenario's call; the pass went through w3 and stopped at w2, whose
\* recomputed constraints equal its cache, and the layout pass ran there.
C12_Witness ==
    /\ last.op = "setMinimumSize" /\ last.w = "w3" /\ last.thrown = ""
    /\ \A a \in Widgets : showing[a] /\ invalidationsSuspended[a] = 0
    /\ cachedConstraints["w2"] = <<<<0, 20>>, <<0, 20>>>>
    /\ Fired("forward", "w3") # {}
    /\ Fired("onLayout", "w2") # {}
    /\ Fired("onResize", "w3") # {}

\* The positions of the log q at which an invalidation pass ran on w: the
\* cache was dropped and recomputed, and the pass forwarded or laid out.
Passes(q, w) == {i \in FiredIn(q, "invalidateConstraints", w) : ~q[i].flag}

\* The calls that change a widget's constraints or declare them changed.
ConstraintChanging == {"setMinimumSize", "setMinimumAndPreferredSizes", "invalidateConstraints"}

\* While w is suspended, a constraint-changing call on it runs no pass: the
\* request is recorded and nothing else happens.
SuspendedCallOnlyRequests(w) ==
    (/\ last'.op \in ConstraintChanging /\ last'.thrown = ""
     /\ last'.w = w /\ invalidationsSuspended[w] > 0)
    => /\ Len(trace') = 1
       /\ trace'[1].ev = "invalidateConstraints" /\ trace'[1].w = w /\ trace'[1].flag
       /\ invalidationsRequested'[w]
       /\ cachedConstraints' = cachedConstraints
       /\ calls' = <<>>

\* No call runs a pass on a suspended widget, whose cached constraints are
\* not dropped, and a recorded request stays recorded, until the resume that
\* leaves the outermost scope.
SuspendedKeepsRequest(w) ==
    (invalidationsSuspended[w] > 0 /\ invalidationsSuspended'[w] > 0)
    => /\ Passes(trace', w) = {}
       /\ invalidationsRequested[w] => invalidationsRequested'[w]
       /\ cachedConstraints[w] # Undef => cachedConstraints'[w] = cachedConstraints[w]

\* resumeInvalidations runs exactly one pass when it leaves the outermost
\* scope with a request recorded, and none otherwise.
ResumeRunsOnePassAtOutermost(w) ==
    (last'.op = "resumeInvalidations" /\ last'.w = w)
    => /\ invalidationsSuspended'[w] = invalidationsSuspended[w] - 1
       /\ IF invalidationsSuspended[w] = 1 /\ invalidationsRequested[w]
          THEN /\ Cardinality(Passes(trace', w)) = 1
               /\ 1 \in Passes(trace', w)
               /\ ~invalidationsRequested'[w]
          ELSE /\ trace' = <<>>
               /\ calls' = <<>>
               /\ cachedConstraints' = cachedConstraints
               /\ invalidationsRequested'[w] = invalidationsRequested[w]

\* C13. Between suspendInvalidations() and the matching resumeInvalidations()
\* on W no invalidation pass runs on W, whatever the number of
\* constraint-changing calls; exactly one pass runs at the resume that leaves
\* the outermost scope if a pass was requested, none at an inner resume and
\* none if no pass was requested.
C13_SuspensionDefersToOnePass ==
    [][\A w \in Widgets : /\ SuspendedCallOnlyRequests(w)
                          /\ SuspendedKeepsRequest(w)
                          /\ ResumeRunsOnePassAtOutermost(w)]_vars

\* C13 witness: the resume that leaves the outermost scope of w3, with a
\* request recorded, ran the pass, which went up to w1 and laid out there.
C13_Witness ==
    /\ last.op = "resumeInvalidations" /\ last.w = "w3" /\ last.thrown = ""
    /\ invalidationsSuspended["w3"] = 0
    /\ constraintsInternal["w3"] = <<<<0, 20>>, <<0, 20>>>>
    /\ Passes(trace, "w3") = {1}
    /\ Fired("onLayout", "w1") # {}

\* Every pass of the log q on a widget is followed at once by exactly one
\* of its two branches: the forwarding to the parent, which exists and whose
\* invalidateConstraints() is what comes next, or doLayout on the widget
\* itself, its recomputed constraints being equal to the cached ones or its
\* parent missing.
EitherForwardsOrLaysOut(q, w) ==
    /\ \A i \in Passes(q, w) :
           /\ i < Len(q)
           /\ q[i+1].w = w /\ q[i+1].ev \in {"forward", "doLayout"}
    /\ \A j \in FiredIn(q, "forward", w) \cup FiredIn(q, "doLayout", w) :
           j - 1 \in Passes(q, w)
    /\ \A j \in FiredIn(q, "forward", w) :
           /\ parentWidget'[w] # None
           /\ j < Len(q)
           /\ q[j+1].ev = "invalidateConstraints" /\ q[j+1].w = parentWidget'[w]
    /\ \A j \in FiredIn(q, "doLayout", w) :
           /\ q[j].flag \/ parentWidget'[w] = None
           /\ \A k \in (j+1)..Len(q) : q[k].ev \in {"onLayout", "onResize"}

\* setMinimumSize with the values the widget already has does not forward to
\* the parent.
UnchangedDoesNotForward(w) ==
    (/\ last'.op = "setMinimumSize" /\ last'.w = w
     /\ invalidationsSuspended[w] = 0
     /\ constraintsInternal[w] # Undef
     /\ constraintsInternal'[w] = constraintsInternal[w])
    => FiredIn(trace', "forward", w) = {}

\* C18. Every invalidateConstraints() on a widget that is not suspended
\* either forwards to the parent (the recomputed constraints differ from the
\* cached ones and there is a parent) or runs doLayout on the widget (they
\* are equal or there is no parent), never both and never neither; and
\* setMinimumSize called again with the same values does not forward.
C18_ForwardsOrLaysOutNeverBoth ==
    [][\A w \in Widgets : /\ EitherForwardsOrLaysOut(trace', w)
                          /\ UnchangedDoesNotForward(w)]_vars

\* The first half of C18 alone.
C18_EitherForwardsOrLaysOut ==
    [][\A w \in Widgets : EitherForwardsOrLaysOut(trace', w)]_vars

\* The focus is on w's element or below it.
FocusIsWithin(w) ==
    activeElement # None /\ activeElement \in {w} \cup Descendants(kids, w)

\* new WidgetFocusRestorer(W) records W and the element that had the focus.
RestorerRecordsFocus ==
    last'.op = "new WidgetFocusRestorer"
    => restorerWidget' = last'.w /\ restorerPrevious' = activeElement

\* restore() on a restorer that has W and X recorded gives the focus to X if
\* and only if W has the focus, leaves the focus alone otherwise, and forgets
\* both; on a restorer that has been restored already it does nothing.
RestoreGivesFocusBackOnce ==
    last'.op = "restore"
    => IF restorerWidget = None
       THEN /\ trace' = <<>>
            /\ activeElement' = activeElement
            /\ restorerWidget' = None /\ restorerPrevious' = None
       ELSE /\ IF FocusIsWithin(restorerWidget) /\ restorerPrevious # None
               THEN /\ FiredIn(trace', "focus", restorerPrevious) # {}
                    /\ activeElement' = restorerPrevious
               ELSE /\ trace' = <<>>
                    /\ activeElement' = activeElement
            /\ restorerWidget' = None /\ restorerPrevious' = None

\* C14. A WidgetFocusRestorer created on W while X had the focus records X;
\* its first restore() moves the focus back to X if and only if W has the
\* focus at that moment, and changes no focus otherwise; every later
\* restore() moves no focus.
C14_RestoreGivesFocusBackOnce ==
    [][RestorerRecordsFocus /\ RestoreGivesFocusBackOnce]_vars

\* C14 witness: the restorer was created on w3 while d1 had the focus, w3
\* took the focus, and restore() has given it back to d1.
C14_Witness ==
    /\ last.op = "restore" /\ last.w = "w3" /\ last.at = "d1" /\ last.thrown = ""
    /\ Fired("focus", "d1") # {}
    /\ activeElement = "d1"
    /\ restorerWidget = None

\* No element from e upwards is the element of a widget.
NoWidgetAbove(e) == AncestorsOrSelf(kids, e) \cap Widgets = {}

\* C15. W.show(parentElement) throws when W is not a root and no widget is
\* found from parentElement upwards, and when W is a root and one is found;
\* the call that throws leaves the parent links, the children lists, the
\* visible and showing flags, the DOM and the counters as they were, also when
\* W is attached to a widget.
C15_ShowFailsWithoutEffect ==
    [][last'.op = "show"
       => /\ (~isRoot[last'.w] /\ NoWidgetAbove(last'.at))
             => /\ last'.thrown = "Attempt to attach widget to orphan node"
                /\ treeVars' = treeVars
          /\ (isRoot[last'.w] /\ ~NoWidgetAbove(last'.at))
             => /\ last'.thrown = "Attempt to show root widget under another widget"
                /\ treeVars' = treeVars]_vars

\* C15 witness: show() of a widget that is attached to a parent and visible,
\* under an element with no widget above it, has thrown.
C15_Witness ==
    /\ last.op = "show" /\ last.thrown = "Attempt to attach widget to orphan node"
    /\ parentWidget[last.w] # None
    /\ visible[last.w]
    /\ NoWidgetAbove(last.at)

\* show() of a root under an element that has a widget above it has thrown.
C15_RootWitness ==
    /\ last.op = "show"
    /\ last.thrown = "Attempt to show root widget under another widget"
    /\ isRoot[last.w]

\* C16. markAsExternallyManaged() throws on every widget that has been
\* counted: one that was not externally managed when its element was put
\* under its DOM parent, roots shown under plain elements and widgets that a
\* hide-on-detach detach left in the DOM included.
C16_MarkingCountedWidgetThrows ==
    [][(/\ last'.op = "markAsExternallyManaged"
        /\ ~externallyManaged[last'.w]
        /\ ParentElement(kids, last'.w) # None)
       => last'.thrown # ""]_vars

\* The hooks of the show and hide passes.
PassHooks == {"wasShown", "willHide"}

\* C17. A call of showWidget, hideWidget or detach made on W from inside a
\* hook, while notificationDepth is greater than 0 on W or on an ancestor of
\* W, changes no widget's showing flag and invokes no wasShown or willHide
\* hook: every pass it starts returns at once.
C17_PassesInsideNotificationDoNothing ==
    \A i \in 1..Len(trace) : \A k \in i..Len(trace) :
        (trace[i].ev = "enter" /\ trace[i].flag /\ trace[k].ev = "leave")
        => /\ trace[k].showing = trace[i].showing
           /\ \A j \in i..k : trace[j].ev \notin PassHooks

\* The same of hideWidget and detach only, which start no will-show pass.
C17_HidingInsideNotificationDoesNothing ==
    \A i \in 1..Len(trace) : \A k \in i..Len(trace) :
        (/\ trace[i].ev = "enter" /\ trace[i].flag /\ trace[k].ev = "leave"
         /\ trace[i].arg # "showWidget")
        => /\ trace[k].showing = trace[i].showing
           /\ \A j \in i..k : trace[j].ev \notin PassHooks

RECURSIVE Ancestors(_, _, _)
\* The widgets reached from w by n or fewer parent links, w excluded unless a
\* chain of links leads back to it.
Ancestors(parent, w, n) ==
    IF n = 0 \/ parent[w] = None THEN {}
    ELSE {parent[w]} \cup Ancestors(parent, parent[w], n - 1)

\* C19. After any sequence of show and detach calls, those that throw
\* included, no widget is its own parent or its own ancestor, and none is in
\* its own children list.
C19_ParentRelationIsAcyclic ==
    \A w \in Widgets :
        /\ w \notin Ancestors(parentWidget, w, Cardinality(Widgets))
        /\ w \notin Range(children[w])

\* C20. After any sequence of show, hideWidget and detach calls that
\* returned, externally managed widgets or not, no counter is negative, and
\* the counter of an element with no widget element below it is zero.
C20_CountersVanishWithTheWidgets ==
    \A e \in Elem :
        /\ counter[e] >= 0
        /\ Descendants(kids, e) \cap Widgets = {} => counter[e] = 0

\* The one of wasShown and willHide that ran on w before position i of the
\* log of the call just made, "none" if neither ever ran.
PassHookBefore(w, i) == LastPassHook(SubSeq(trace', 1, i - 1), w, lastPassHook[w])

\* C21. On every widget the wasShown and willHide hooks run in strict
\* alternation, wasShown first: wasShown never runs twice without a willHide
\* in between, willHide never runs unless wasShown ran last; and the widget is
\* showing whenever one of the two runs.
C21_PassHooksAlternate ==
    [][\A w \in Widgets : \A i \in PassHooksOf(trace', w) :
           /\ trace'[i].showing[w]
           /\ trace'[i].ev = "wasShown" => PassHookBefore(w, i) # "wasShown"
           /\ trace'[i].ev = "willHide" => PassHookBefore(w, i) = "wasShown"]_vars

\* The hooks that notify() invokes.
NotifiedHooks == {"wasShown", "willHide", "onResize", "onLayout"}

\* At position i of the log a hook of u is executing: the position is the
\* start of that hook, or it lies in the call that an overridden hook of u
\* makes, between the start of the call and its return.
Executing(u, i) ==
    \/ trace[i].ev \in NotifiedHooks /\ trace[i].w = u
    \/ \E e \in 2..i :
           /\ trace[e].ev = "enter"
           /\ trace[e-1].w = u
           /\ \A k \in e..(i-1) : trace[k].ev # "leave"

\* C22. The notificationDepth of a widget is never negative, it is greater
\* than 0 exactly while one of the widget's hooks wasShown, willHide, onResize
\* or onLayout is executing, and it is 0 once the outermost call has returned
\* or thrown, a throw from inside a hook included.
C22_NotificationDepthIsBalanced ==
    /\ \A u \in Widgets : notificationDepth[u] = 0
    /\ \A i \in 1..Len(trace) : \A u \in Widgets :
           /\ trace[i].depth[u] >= 0
           /\ trace[i].depth[u] > 0 <=> Executing(u, i)

\* C22 witness: the call that a hook made has thrown, the depth of the hook's
\* widget having been 1 when the call started, and the outermost call has
\* thrown with it.
C22_Witness ==
    /\ last.thrown # ""
    /\ \E e \in 2..Len(trace) :
           /\ trace[e].ev = "enter"
           /\ trace[e].depth[trace[e-1].w] = 1
           /\ \A k \in e..Len(trace) : trace[k].ev # "leave"

====
